---- MODULE Spec2Model ----
(***************************************************************************)
(* PromiseQueue (bounded-concurrency FIFO queue of promise-returning       *)
(* workers) and ResolvablePromise, modelled from the TypeScript source.    *)
(*                                                                         *)
(* A task is identified by the position of its enqueue call (1, 2, ...).   *)
(* A promise is a record [st, val]; st is "none" (not created yet),        *)
(* "pending", "resolved" or "rejected".  The host's microtask queue is the *)
(* variable jobs: reactions of promise.then(..).catch(..) run one at a     *)
(* time, in FIFO order, each as one synchronous pass.                      *)
(***************************************************************************)
EXTENDS Integers, Sequences, FiniteSets, TLC

\* ------------------------------------------------------------------ bounds
MaxTasks == 3      \* number of enqueue calls explored
MaxLimit == 2      \* concurrentLimit ranges over 1..MaxLimit
MaxVal   == 1      \* results, rejection reasons and thrown errors range over 1..MaxVal
MaxForks == 3      \* continuations attached to the stand-alone ResolvablePromise
MaxCalls == 2      \* calls of resolve / reject on the stand-alone ResolvablePromise

Tasks  == 1..MaxTasks
Values == 1..MaxVal

\* a worker either returns a promise, or throws err synchronously
Workers == {[kind |-> "async", err |-> 0]} \cup {[kind |-> "throw", err |-> e] : e \in Values}
NoWorker == [kind |-> "none", err |-> 0]

\* a worker that returns a promise without touching the queue
AsyncWorker == [kind |-> "async", err |-> 0]

\* re-entrant workers: before returning its promise the worker calls
\* queue.enqueue(w) with a plain worker w, or queue.dequeue(), on the queue
\* that is invoking it
ReWorkers == {AsyncWorker, [kind |-> "enqueues", err |-> 0], [kind |-> "dequeues", err |-> 0]}

\* task ids an enqueue call takes: its own, and for a worker that enqueues
\* the id of the task it will enqueue (the next one)
Slots(w) == IF w.kind = "enqueues" THEN 2 ELSE 1

NoPromise      == [st |-> "none", val |-> 0]
PendingPromise == [st |-> "pending", val |-> 0]

VARIABLES
  concurrentLimit,          \* PromiseQueue.concurrentLimit
  queue,                    \* PromiseQueue.queue: sequence of task ids (PromiseWrapper)
  inProgressPromises,       \* PromiseQueue.inProgressPromises: sequence of task ids (their work promise)
  onQueueCompletePromise,   \* 0 (undefined) or the index of a ResolvablePromise in drainPromise
  drainPromise,             \* every ResolvablePromise<true> created so far
  worker,                   \* task -> the worker passed to enqueue
  workPromise,              \* task -> state of the promise returned by worker()
  enqueuePromise,           \* task -> state of the promise returned by enqueue()
  jobs,                     \* microtask queue of promise reactions
  nextId,                   \* id of the next enqueue call
  callCount,                \* task -> number of invocations of its worker
  startOrder,               \* task ids in the order their worker was invoked
  drainLog,                 \* one entry per onQueueCompletePromise.resolve(true)
  ret,                      \* <<b>> after an external dequeue() call returned b, <<>> before any
  cycles,                   \* number of busy periods begun (pending or in-progress work after none)
  dequeueLog                \* the dequeue() invocations of the last pass begun by enqueue or a reaction

\* a ResolvablePromise used on its own
VARIABLES
  rpPromise,                \* ResolvablePromise.__promise
  rpForks,                  \* the continuations attached through then / catch / finally, in order
  rpJobs,                   \* microtask queue of the reactions of those continuations
  rpNotified,               \* the handler invocations so far, in order
  rpCalls                   \* the calls of resolve / reject so far, in order

rpVars == <<rpPromise, rpForks, rpJobs, rpNotified, rpCalls>>

\* the variables of the queue
queueVars == <<concurrentLimit, queue, inProgressPromises, onQueueCompletePromise,
               drainPromise, worker, workPromise, enqueuePromise, jobs, nextId,
               callCount, startOrder, drainLog, ret, cycles, dequeueLog>>

vars == <<concurrentLimit, queue, inProgressPromises, onQueueCompletePromise, drainPromise,
          worker, workPromise, enqueuePromise, jobs, nextId, callCount, startOrder,
          drainLog, ret, cycles, dequeueLog, rpVars>>

\* ------------------------------------------------- native promise capability
\* variant: a later call of resolve replaces the outcome
resolveOverwrites(p, v) == [st |-> "resolved", val |-> v]

\* the resolve function of a promise: settles it once, later calls are no-ops
resolve(p, v) == IF p.st = "pending" THEN [st |-> "resolved", val |-> v] ELSE p

\* the reject function of a promise
reject(p, r) == IF p.st = "pending" THEN [st |-> "rejected", val |-> r] ELSE p

Settled(p) == p.st \in {"resolved", "rejected"}

\* ---------------------------------------------------------- PromiseQueue
\* the queue object and what a synchronous pass can change, as one record
St == [queue |-> queue, inProgressPromises |-> inProgressPromises,
       onQueueCompletePromise |-> onQueueCompletePromise, drainPromise |-> drainPromise,
       worker |-> worker, workPromise |-> workPromise, enqueuePromise |-> enqueuePromise,
       callCount |-> callCount, startOrder |-> startOrder, drainLog |-> drainLog,
       ret |-> ret, cycles |-> cycles, dequeueLog |-> dequeueLog]

Set(s) ==
  /\ queue' = s.queue
  /\ inProgressPromises' = s.inProgressPromises
  /\ onQueueCompletePromise' = s.onQueueCompletePromise
  /\ drainPromise' = s.drainPromise
  /\ worker' = s.worker
  /\ workPromise' = s.workPromise
  /\ enqueuePromise' = s.enqueuePromise
  /\ callCount' = s.callCount
  /\ startOrder' = s.startOrder
  /\ drainLog' = s.drainLog
  /\ ret' = s.ret
  /\ cycles' = s.cycles
  /\ dequeueLog' = s.dequeueLog

\* Array.findIndex: first index holding p, or 0
FindIndex(seq, p) ==
  IF \E i \in 1..Len(seq) : seq[i] = p
  THEN CHOOSE i \in 1..Len(seq) : seq[i] = p /\ \A j \in 1..(i-1) : seq[j] # p
  ELSE 0

\* Array.splice(index, 1)
Splice(seq, i) == [k \in 1..(Len(seq)-1) |-> IF k < i THEN seq[k] ELSE seq[k+1]]

removeFromInProgress(s, p) ==
  LET index == FindIndex(s.inProgressPromises, p)
  IN IF index = 0 THEN s
     ELSE [s EXCEPT !.inProgressPromises = Splice(s.inProgressPromises, index)]

addToInProgress(s, p) == [s EXCEPT !.inProgressPromises = Append(s.inProgressPromises, p)]

addToQueue(s, t) ==
  LET s1 == [s EXCEPT !.queue = Append(s.queue, t),
                      !.cycles = IF s.queue = <<>> /\ s.inProgressPromises = <<>>
                                 THEN @ + 1 ELSE @]
  IN IF s1.onQueueCompletePromise = 0
     THEN [s1 EXCEPT !.drainPromise = Append(s.drainPromise, [st |-> "pending", val |-> FALSE]),
                     !.onQueueCompletePromise = Len(s.drainPromise) + 1]
     ELSE s1

\* variant: capacity test written with > instead of >=
AtCapacityOffByOne(s) == Len(s.inProgressPromises) > concurrentLimit

\* the capacity test at the top of dequeue
AtCapacity(s) == Len(s.inProgressPromises) >= concurrentLimit

\* variant: queue.pop() instead of queue.shift()
Pop(q) == [item |-> q[Len(q)], rest |-> SubSeq(q, 1, Len(q) - 1)]

\* queue.shift() on a non-empty array: the item taken and the rest
Shift(q) == [item |-> Head(q), rest |-> Tail(q)]

\* variant: the empty-queue branch resolves the promise but keeps the field
CompleteQueueNoClear(s) ==
  IF s.onQueueCompletePromise # 0
  THEN [s EXCEPT !.drainPromise[s.onQueueCompletePromise] = resolve(@, TRUE),
                 !.drainLog = Append(@, [id |-> s.onQueueCompletePromise,
                                         cycle |-> s.cycles,
                                         pending |-> Len(s.queue),
                                         active |-> Len(s.inProgressPromises)])]
  ELSE s

\* the empty-queue branch of dequeue
CompleteQueue(s) ==
  IF s.onQueueCompletePromise # 0
  THEN [s EXCEPT !.drainPromise[s.onQueueCompletePromise] = resolve(@, TRUE),
                 !.drainLog = Append(@, [id |-> s.onQueueCompletePromise,
                                         cycle |-> s.cycles,
                                         pending |-> Len(s.queue),
                                         active |-> Len(s.inProgressPromises)]),
                 !.onQueueCompletePromise = 0]
  ELSE s

RECURSIVE dequeue(_)
RECURSIVE enqueue(_, _, _)

\* item.worker(): the synchronous part of the worker function, run on the
\* queue as it is in the middle of dequeue (item shifted, promise not yet
\* added to inProgressPromises)
WorkerBody(s, t) ==
  CASE s.worker[t].kind = "enqueues" -> enqueue(s, t + 1, AsyncWorker)
    [] s.worker[t].kind = "dequeues" -> dequeue(s)
    [] OTHER -> s

\* variant: the worker is invoked a second time when its promise is registered
InvokeWorkerTwice(s, t) ==
  LET called == [s EXCEPT !.callCount[t] = @ + 2, !.startOrder = Append(@, t)]
  IN IF s.worker[t].kind = "throw"
     THEN [removeFromInProgress(called, 0)
             EXCEPT !.enqueuePromise[t] = reject(@, s.worker[t].err)]
     ELSE addToInProgress([called EXCEPT !.workPromise[t] = PendingPromise], t)

\* variant: the catch block swallows the error without item.reject(err)
InvokeWorkerNoReject(s, t) ==
  LET called == [s EXCEPT !.callCount[t] = @ + 1, !.startOrder = Append(@, t)]
  IN IF s.worker[t].kind = "throw"
     THEN removeFromInProgress(called, 0)
     ELSE addToInProgress([called EXCEPT !.workPromise[t] = PendingPromise], t)

\* the try/catch of dequeue: invoke the worker of item t
InvokeWorker(s, t) ==
  LET called == WorkerBody([s EXCEPT !.callCount[t] = @ + 1, !.startOrder = Append(@, t)], t)
  IN IF s.worker[t].kind = "throw"
     THEN \* catch (err): promise is still undefined
          [removeFromInProgress(called, 0)
             EXCEPT !.enqueuePromise[t] = reject(@, s.worker[t].err)]
     ELSE addToInProgress([called EXCEPT !.workPromise[t] = PendingPromise], t)

\* one dequeue() invocation as observed: the queue on entry (before), the queue
\* when the invocation returns or re-invokes itself (after), the value returned
LogCall(before, after0, r, again) ==
  LET entry(after) ==
        [ret |-> r, reinvoked |-> again,
         pending |-> Len(before.queue), active |-> Len(before.inProgressPromises),
         signal |-> before.onQueueCompletePromise,
         inProgress |-> before.inProgressPromises,
         settled |-> {t \in Tasks : Settled(before.enqueuePromise[t])},
         pendingAfter |-> Len(after.queue), activeAfter |-> Len(after.inProgressPromises),
         signalAfter |-> after.onQueueCompletePromise,
         started |-> Len(after.startOrder) - Len(before.startOrder),
         drained |-> Len(after.drainLog) - Len(before.drainLog)]
  IN CHOOSE x \in {[a EXCEPT !.dequeueLog = Append(@, entry(a))] : a \in {after0}} : TRUE

\* variant: dequeue without the trailing this.dequeue()
dequeueNoRetrigger(s) ==
  IF AtCapacity(s) THEN [s EXCEPT !.ret = <<FALSE>>]
  ELSE IF s.queue = <<>> THEN [CompleteQueue(s) EXCEPT !.ret = <<FALSE>>]
  ELSE LET item == Shift(s.queue).item
           s1 == [s EXCEPT !.queue = Shift(s.queue).rest]
       IN [InvokeWorker(s1, item) EXCEPT !.ret = <<TRUE>>]

\* variant: an item whose worker returned a promise stays at the head of the queue
RECURSIVE dequeueKeepsItem(_)
dequeueKeepsItem(s0) ==
  LET pass(s) ==
        IF AtCapacity(s) THEN [LogCall(s, s, FALSE, FALSE) EXCEPT !.ret = <<FALSE>>]
        ELSE IF s.queue = <<>>
             THEN [LogCall(s, CompleteQueue(s), FALSE, FALSE) EXCEPT !.ret = <<FALSE>>]
        ELSE LET item == Shift(s.queue).item
                 s1 == IF s.worker[item].kind = "throw"
                       THEN [s EXCEPT !.queue = Shift(s.queue).rest] ELSE s
                 s2 == InvokeWorker(s1, item)
                 s3 == dequeueKeepsItem(LogCall(s, s2, TRUE, TRUE))
             IN [s3 EXCEPT !.ret = <<TRUE>>]
  IN CHOOSE r \in {pass(s) : s \in {s0}} : TRUE

\* variant: a dequeue blocked by capacity resolves the promise before returning
RECURSIVE dequeueCompletesWhenBlocked(_)
dequeueCompletesWhenBlocked(s0) ==
  LET pass(s) ==
        IF AtCapacity(s)
        THEN [LogCall(s, CompleteQueue(s), FALSE, FALSE) EXCEPT !.ret = <<FALSE>>]
        ELSE IF s.queue = <<>>
             THEN [LogCall(s, CompleteQueue(s), FALSE, FALSE) EXCEPT !.ret = <<FALSE>>]
        ELSE LET item == Shift(s.queue).item
                 s1 == [s EXCEPT !.queue = Shift(s.queue).rest]
                 s2 == InvokeWorker(s1, item)
                 s3 == dequeueCompletesWhenBlocked(LogCall(s, s2, TRUE, TRUE))
             IN [s3 EXCEPT !.ret = <<TRUE>>]
  IN CHOOSE r \in {pass(s) : s \in {s0}} : TRUE

\* variant: the empty-queue branch returns true when it resolved the promise
RECURSIVE dequeueDrainIsWork(_)
dequeueDrainIsWork(s0) ==
  LET pass(s) ==
        IF AtCapacity(s) THEN [LogCall(s, s, FALSE, FALSE) EXCEPT !.ret = <<FALSE>>]
        ELSE IF s.queue = <<>>
             THEN [LogCall(s, CompleteQueue(s), s.onQueueCompletePromise # 0, FALSE)
                     EXCEPT !.ret = <<s.onQueueCompletePromise # 0>>]
        ELSE LET item == Shift(s.queue).item
                 s1 == [s EXCEPT !.queue = Shift(s.queue).rest]
                 s2 == InvokeWorker(s1, item)
                 s3 == dequeueDrainIsWork(LogCall(s, s2, TRUE, TRUE))
             IN [s3 EXCEPT !.ret = <<TRUE>>]
  IN CHOOSE r \in {pass(s) : s \in {s0}} : TRUE

\* dequeue(): pass(s) is the method body; s is bound once to the value of the
\* argument so that the recursion evaluates every intermediate state once
dequeue(s0) ==
  LET pass(s) ==
        IF AtCapacity(s) THEN [LogCall(s, s, FALSE, FALSE) EXCEPT !.ret = <<FALSE>>]
        ELSE IF s.queue = <<>>
             THEN [LogCall(s, CompleteQueue(s), FALSE, FALSE) EXCEPT !.ret = <<FALSE>>]
        ELSE LET item == Shift(s.queue).item
                 s1 == [s EXCEPT !.queue = Shift(s.queue).rest]
                 s2 == InvokeWorker(s1, item)
                 s3 == dequeue(LogCall(s, s2, TRUE, TRUE))
             IN [s3 EXCEPT !.ret = <<TRUE>>]
  IN CHOOSE r \in {pass(s) : s \in {s0}} : TRUE

\* variant: enqueue only adds to the queue, without this.dequeue()
enqueueNoDequeue(s, t, w) ==
  addToQueue([s EXCEPT !.worker[t] = w, !.enqueuePromise[t] = PendingPromise,
                       !.dequeueLog = <<>>], t)

\* enqueue(worker): the executor of the returned promise runs synchronously
enqueue(s, t, w) ==
  LET s0 == [s EXCEPT !.worker[t] = w, !.enqueuePromise[t] = PendingPromise,
                      !.dequeueLog = <<>>]
      s1 == addToQueue(s0, t)
  IN [dequeue(s1) EXCEPT !.ret = s.ret]

\* variant: the reaction settles the item without calling this.dequeue()
ThenHandlerNoDequeue(s, t) ==
  LET s1 == removeFromInProgress(s, t)
  IN [s1 EXCEPT !.enqueuePromise[t] = resolve(@, s.workPromise[t].val)]

\* variant: the reaction resolves the item of the oldest in-progress promise
ThenHandlerWrongItem(s, t) ==
  LET first == Head(s.inProgressPromises)
      s1 == removeFromInProgress(s, t)
      s2 == [s1 EXCEPT !.enqueuePromise[first] = resolve(@, s.workPromise[t].val)]
  IN [dequeue(s2) EXCEPT !.ret = s.ret]

\* variant: the reaction calls this.dequeue() before item.resolve(value)
ThenHandlerDequeueFirst(s, t) ==
  LET s1 == removeFromInProgress([s EXCEPT !.dequeueLog = <<>>], t)
      s2 == [dequeue(s1) EXCEPT !.ret = s.ret]
  IN [s2 EXCEPT !.enqueuePromise[t] = resolve(@, s.workPromise[t].val)]

\* the .then((value) => ...) reaction of task t's work promise
ThenHandler(s, t) ==
  LET s1 == removeFromInProgress([s EXCEPT !.dequeueLog = <<>>], t)
      s2 == [s1 EXCEPT !.enqueuePromise[t] = resolve(@, s.workPromise[t].val)]
  IN [dequeue(s2) EXCEPT !.ret = s.ret]

\* variant: the reaction forgets this.removeFromInProgress(promise)
CatchHandlerNoRemove(s, t) ==
  LET s2 == [s EXCEPT !.enqueuePromise[t] = reject(@, s.workPromise[t].val)]
  IN [dequeue(s2) EXCEPT !.ret = s.ret]

\* variant: the reaction rejects the item without calling this.dequeue()
CatchHandlerNoDequeue(s, t) ==
  LET s1 == removeFromInProgress(s, t)
  IN [s1 EXCEPT !.enqueuePromise[t] = reject(@, s.workPromise[t].val)]

\* the .catch((err) => ...) reaction
CatchHandler(s, t) ==
  LET s1 == removeFromInProgress([s EXCEPT !.dequeueLog = <<>>], t)
      s2 == [s1 EXCEPT !.enqueuePromise[t] = reject(@, s.workPromise[t].val)]
  IN [dequeue(s2) EXCEPT !.ret = s.ret]

\* ------------------------------------------------------ ResolvablePromise
\* one reaction registered by then(onFulfilled, onRejected) or finally(onFinally)
Reaction(f, r, fin) == [onFulfilled |-> f, onRejected |-> r, onFinally |-> fin]

\* the ways a caller attaches handlers to the promise
ForkKinds == {"then", "thenBoth", "catch", "thenCatch", "finally"}

\* the reactions of each: p.then(f), p.then(f, g), p.catch(g),
\* p.then(f).catch(g), p.finally(h)
Chain(kind) ==
  CASE kind = "then"      -> <<Reaction(TRUE, FALSE, FALSE)>>
    [] kind = "thenBoth"  -> <<Reaction(TRUE, TRUE, FALSE)>>
    [] kind = "catch"     -> <<Reaction(FALSE, TRUE, FALSE)>>
    [] kind = "thenCatch" -> <<Reaction(TRUE, FALSE, FALSE), Reaction(FALSE, TRUE, FALSE)>>
    [] kind = "finally"   -> <<Reaction(FALSE, FALSE, TRUE)>>

\* what a handler returns (the handlers return undefined)
Undefined == [st |-> "resolved", val |-> 0]

\* variant: a reaction without a handler for the outcome fulfils the derived promise
ReactNoPassThrough(reaction, in) ==
  IF reaction.onFinally THEN [notes |-> <<[handler |-> "finally", arg |-> 0]>>, out |-> in]
  ELSE IF in.st = "resolved" /\ reaction.onFulfilled
       THEN [notes |-> <<[handler |-> "success", arg |-> in.val]>>, out |-> Undefined]
  ELSE IF in.st = "rejected" /\ reaction.onRejected
       THEN [notes |-> <<[handler |-> "failure", arg |-> in.val]>>, out |-> Undefined]
  ELSE [notes |-> <<>>, out |-> Undefined]

\* one reaction run on the settled promise in: the handler registered for
\* the outcome is invoked with the value or reason and the derived promise is
\* fulfilled with its return value; without such a handler the outcome passes
\* on to the derived promise; onFinally is invoked without argument and the
\* outcome passes on
React(reaction, in) ==
  IF reaction.onFinally THEN [notes |-> <<[handler |-> "finally", arg |-> 0]>>, out |-> in]
  ELSE IF in.st = "resolved" /\ reaction.onFulfilled
       THEN [notes |-> <<[handler |-> "success", arg |-> in.val]>>, out |-> Undefined]
  ELSE IF in.st = "rejected" /\ reaction.onRejected
       THEN [notes |-> <<[handler |-> "failure", arg |-> in.val]>>, out |-> Undefined]
  ELSE [notes |-> <<>>, out |-> in]

\* new ResolvablePromise()
RPInit ==
  /\ rpPromise = PendingPromise
  /\ rpForks = <<>>
  /\ rpJobs = <<>>
  /\ rpNotified = <<>>
  /\ rpCalls = <<>>

\* promise.then(..) / promise.catch(..) / promise.finally(..): all three
\* delegate to __promise; on a settled promise the reaction is queued at once
RPAttach(kind) ==
  /\ Len(rpForks) < MaxForks
  /\ rpForks' = Append(rpForks, kind)
  /\ rpJobs' = IF Settled(rpPromise)
               THEN Append(rpJobs, [fork |-> Len(rpForks) + 1, step |-> 1, in |-> rpPromise])
               ELSE rpJobs
  /\ UNCHANGED <<queueVars, rpPromise, rpNotified, rpCalls>>

\* the promise becomes p: a change of state queues the first reaction of
\* every attached continuation
RPSettle(p) ==
  /\ rpPromise' = p
  /\ rpJobs' = IF p # rpPromise
               THEN rpJobs \o [i \in 1..Len(rpForks) |-> [fork |-> i, step |-> 1, in |-> p]]
               ELSE rpJobs

\* promise.resolve(v)
RPResolve(v) ==
  /\ Len(rpCalls) < MaxCalls
  /\ rpCalls' = Append(rpCalls, [op |-> "resolve", val |-> v])
  /\ RPSettle(resolve(rpPromise, v))
  /\ UNCHANGED <<queueVars, rpForks, rpNotified>>

\* promise.reject(r)
RPReject(r) ==
  /\ Len(rpCalls) < MaxCalls
  /\ rpCalls' = Append(rpCalls, [op |-> "reject", val |-> r])
  /\ RPSettle(reject(rpPromise, r))
  /\ UNCHANGED <<queueVars, rpForks, rpNotified>>

\* the host runs the oldest reaction and queues the next one of its chain
RPRunJob ==
  /\ rpJobs # <<>>
  /\ LET job   == Head(rpJobs)
         chain == Chain(rpForks[job.fork])
         r     == React(chain[job.step], job.in)
     IN /\ rpNotified' = rpNotified \o
                           [i \in 1..Len(r.notes) |->
                              [fork |-> job.fork, handler |-> r.notes[i].handler,
                               arg |-> r.notes[i].arg]]
        /\ rpJobs' = IF job.step < Len(chain)
                     THEN Append(Tail(rpJobs),
                                 [fork |-> job.fork, step |-> job.step + 1, in |-> r.out])
                     ELSE Tail(rpJobs)
  /\ UNCHANGED <<queueVars, rpPromise, rpForks, rpCalls>>

\* the methods of a native Promise, and those of a ResolvablePromise
NativePromiseMethods == {"then", "catch", "finally"}
ResolvablePromiseMethods == NativePromiseMethods \cup {"resolve", "reject"}

\* variant: toPromise() returns the ResolvablePromise itself
toPromiseReturnsThis == ResolvablePromiseMethods

\* toPromise() returns __promise, a native Promise: what its holder can call
toPromise == NativePromiseMethods

\* the method a consumer calls first for each kind of use
Method(op) ==
  CASE op \in {"then", "thenBoth", "thenCatch"} -> "then"
    [] OTHER -> op

\* a consumer holding only toPromise() calls one of its methods; its calls
\* are not the producer's and are not recorded in rpCalls
RPViewCall(op, v) ==
  /\ Method(op) \in toPromise
  /\ IF op \in ForkKinds
     THEN RPAttach(op)
     ELSE /\ RPSettle(IF op = "resolve" THEN resolve(rpPromise, v) ELSE reject(rpPromise, v))
          /\ UNCHANGED <<queueVars, rpForks, rpNotified, rpCalls>>

RPNext ==
  \/ \E op \in ForkKinds \cup {"resolve", "reject"}, v \in Values : RPViewCall(op, v)
  \/ \E kind \in ForkKinds : RPAttach(kind)
  \/ \E v \in Values : RPResolve(v)
  \/ \E r \in Values : RPReject(r)
  \/ RPRunJob

\* ------------------------------------------------------------------ actions
Init ==
  /\ RPInit
  /\ concurrentLimit \in 1..MaxLimit
  /\ queue = <<>>
  /\ inProgressPromises = <<>>
  /\ onQueueCompletePromise = 0
  /\ drainPromise = <<>>
  /\ worker = [t \in Tasks |-> NoWorker]
  /\ workPromise = [t \in Tasks |-> NoPromise]
  /\ enqueuePromise = [t \in Tasks |-> NoPromise]
  /\ jobs = <<>>
  /\ nextId = 1
  /\ callCount = [t \in Tasks |-> 0]
  /\ startOrder = <<>>
  /\ drainLog = <<>>
  /\ ret = <<>>
  /\ cycles = 0
  /\ dequeueLog = <<>>

\* queue.enqueue(w)
Enqueue(w) ==
  /\ nextId + Slots(w) - 1 <= MaxTasks
  /\ \E s \in {enqueue(St, nextId, w)} : Set(s)
  /\ nextId' = nextId + Slots(w)
  /\ UNCHANGED <<rpVars, concurrentLimit, jobs>>

\* queue.dequeue() called from outside the queue
ExternalDequeue ==
  /\ \E s \in {[dequeue(St) EXCEPT !.dequeueLog = dequeueLog]} : Set(s)
  /\ UNCHANGED <<rpVars, concurrentLimit, jobs, nextId>>

\* the promise returned by task t's worker is fulfilled with v
ResolveWork(t, v) ==
  /\ workPromise[t].st = "pending"
  /\ workPromise' = [workPromise EXCEPT ![t] = resolve(@, v)]
  /\ jobs' = Append(jobs, [task |-> t, kind |-> "then"])
  /\ UNCHANGED <<rpVars, concurrentLimit, queue, inProgressPromises, onQueueCompletePromise,
                 drainPromise, worker, enqueuePromise, nextId, callCount, startOrder,
                 drainLog, ret, cycles, dequeueLog>>

\* the promise returned by task t's worker is rejected with r: the promise
\* derived by .then has no onRejected and passes the rejection on first
RejectWork(t, r) ==
  /\ workPromise[t].st = "pending"
  /\ workPromise' = [workPromise EXCEPT ![t] = reject(@, r)]
  /\ jobs' = Append(jobs, [task |-> t, kind |-> "pass"])
  /\ UNCHANGED <<rpVars, concurrentLimit, queue, inProgressPromises, onQueueCompletePromise,
                 drainPromise, worker, enqueuePromise, nextId, callCount, startOrder,
                 drainLog, ret, cycles, dequeueLog>>

\* the host runs the oldest promise reaction
RunJob ==
  /\ jobs # <<>>
  /\ LET job == Head(jobs)
     IN CASE job.kind = "then" ->
               /\ \E s \in {ThenHandler(St, job.task)} : Set(s)
               /\ jobs' = Tail(jobs)
          [] job.kind = "pass" ->
               /\ jobs' = Append(Tail(jobs), [task |-> job.task, kind |-> "catch"])
               /\ UNCHANGED <<queue, inProgressPromises, onQueueCompletePromise,
                              drainPromise, worker, workPromise, enqueuePromise,
                              callCount, startOrder, drainLog, ret, cycles, dequeueLog>>
          [] job.kind = "catch" ->
               /\ \E s \in {CatchHandler(St, job.task)} : Set(s)
               /\ jobs' = Tail(jobs)
  /\ UNCHANGED <<rpVars, concurrentLimit, nextId>>

Next ==
  \/ \E w \in Workers : Enqueue(w)
  \/ ExternalDequeue
  \/ \E t \in Tasks, v \in Values : ResolveWork(t, v)
  \/ \E t \in Tasks, r \in Values : RejectWork(t, r)
  \/ RunJob

Spec == Init /\ [][Next]_vars

\* every started task's promise settles eventually, and the host runs every
\* queued reaction
SettleWork(t) == \E v \in Values : ResolveWork(t, v) \/ RejectWork(t, v)

LiveSpec ==
  /\ Init /\ [][Next]_vars
  /\ WF_vars(RunJob)
  /\ \A t \in Tasks : WF_vars(SettleWork(t))

\* the queue used with re-entrant workers
ReNext ==
  \/ \E w \in ReWorkers : Enqueue(w)
  \/ \E t \in Tasks, v \in Values : ResolveWork(t, v)
  \/ RunJob

ReSpec == Init /\ [][ReNext]_vars

\* a ResolvablePromise on its own, beside an unused queue with default options
RPStart == Init /\ concurrentLimit = 1

RPSpec == RPStart /\ [][RPNext]_vars

\* ------------------------------------------------------------- observations
Active == {inProgressPromises[i] : i \in 1..Len(inProgressPromises)}

Enqueued(t) == t < nextId

Started(t) == callCount[t] >= 1

\* the promise reaction of kind k for task t is the one the host runs in this step
Runs(t, k) == jobs # <<>> /\ Head(jobs) = [task |-> t, kind |-> k] /\ jobs' = Tail(jobs)

Saturated == queue = <<>> \/ Len(inProgressPromises) = concurrentLimit

\* ------------------------------------------------------------------- claims

\* C1: the number of in-progress promises is always between 0 and
\* concurrentLimit, after any enqueue, dequeue and settlement sequence.
C1_ActiveWithinLimit == Len(inProgressPromises) \in 0..concurrentLimit

C1_Witness ==
  /\ concurrentLimit = 2
  /\ Len(inProgressPromises) = 2
  /\ queue # <<>>
  /\ ret = <<FALSE>>

\* C2: workers are invoked in enqueue order (strict FIFO start order) for
\* every concurrentLimit and completion order; with concurrentLimit = 1 at
\* most one started task is unsettled at a time.
C2_FifoStart ==
  /\ \A i, j \in 1..Len(startOrder) : i < j => startOrder[i] < startOrder[j]
  /\ \A t \in Tasks : Started(t) => \A u \in 1..(t-1) : Started(u)
  /\ concurrentLimit = 1 =>
       Cardinality({t \in Tasks : workPromise[t].st = "pending"}) <= 1

C2_Witness ==
  /\ startOrder = <<1, 2, 3>>
  /\ workPromise[1].st = "pending"
  /\ Settled(enqueuePromise[2])
  /\ concurrentLimit = 2

\* C3: with concurrentLimit tasks active, a worker is invoked only in a step
\* that handles the completion of an active task; and the step that handles
\* the completion of any active task invokes the worker of the earliest
\* pending task, whatever the other active tasks are doing.
C3_BackfillOnCompletion ==
  [][ /\ (Len(inProgressPromises) = concurrentLimit /\ startOrder' # startOrder)
           => \E a \in Active : /\ a \notin Active'
                                /\ Settled(workPromise[a])
                                /\ Settled(enqueuePromise'[a])
      /\ \A a \in Active :
           ((Runs(a, "then") \/ Runs(a, "catch")) /\ queue # <<>>)
             => /\ callCount'[Head(queue)] = callCount[Head(queue)] + 1
                /\ \A b \in Active \ {a} : b \in Active' ]_vars

C3_Witness ==
  /\ concurrentLimit = 2
  /\ inProgressPromises = <<1, 3>>
  /\ workPromise[1].st = "pending"
  /\ workPromise[2].st = "resolved"
  /\ workPromise[3].st = "pending"

\* C4: the worker of every enqueued task is invoked at most once.
C4_WorkCalledAtMostOnce == \A t \in Tasks : callCount[t] <= 1

C4_Witness ==
  /\ \A t \in Tasks : callCount[t] = 1
  /\ ret = <<FALSE>>
  /\ \E t \in Tasks : Settled(workPromise[t]) /\ t \notin Active

\* C5: when a task's work promise resolves with v, the promise enqueue
\* returned for that task resolves with v once the completion is handled, and
\* a promise returned by enqueue is resolved only with its own task's value.
C5_ResultRelayed ==
  \A t \in Tasks :
    /\ enqueuePromise[t].st = "resolved" => workPromise[t] = enqueuePromise[t]
    /\ (workPromise[t].st = "resolved" /\ t \notin Active)
         => enqueuePromise[t] = workPromise[t]

C5_Witness ==
  /\ enqueuePromise[2] = [st |-> "resolved", val |-> 1]
  /\ workPromise[1] = [st |-> "resolved", val |-> 1]
  /\ enqueuePromise[1].st = "pending"

\* C6: when a task's work promise rejects with r, handling the rejection
\* removes the task from the in-progress set and rejects the promise enqueue
\* returned with exactly r; the queue then goes on: the earliest pending task
\* is started in the same pass and no free slot is left beside a pending task.
C6_FailureRelayed ==
  [][ \A t \in Tasks :
        /\ Runs(t, "catch") =>
             /\ workPromise[t].st = "rejected"
             /\ enqueuePromise'[t] = workPromise[t]
             /\ t \notin Active'
             /\ queue # <<>> => callCount'[Head(queue)] = 1
             /\ Saturated'
        /\ (workPromise'[t].st = "rejected" /\ t \notin Active')
             => enqueuePromise'[t] = workPromise'[t]
        /\ (enqueuePromise'[t].st = "rejected" /\ worker'[t].kind = "async")
             => workPromise'[t] = enqueuePromise'[t] ]_vars

C6_Witness ==
  /\ concurrentLimit = 1
  /\ worker[1].kind = "async"
  /\ enqueuePromise[1] = [st |-> "rejected", val |-> 1]
  /\ enqueuePromise[2].st = "resolved"
  /\ 3 \in Active

\* C7: a worker that throws synchronously has the promise enqueue returned
\* rejected with the thrown error in the pass that invoked it, is never in the
\* in-progress set, and the pass goes on to start the next pending task.
C7_SyncThrow ==
  [][ \A t \in Tasks :
        worker'[t].kind = "throw" =>
          /\ t \notin Active'
          /\ workPromise'[t] = NoPromise
          /\ callCount'[t] >= 1 =>
               enqueuePromise'[t] = [st |-> "rejected", val |-> worker'[t].err]
          /\ callCount'[t] > callCount[t] =>
               /\ Saturated'
               /\ (t + 1 < nextId) => callCount'[t + 1] = 1 ]_vars

C7_Witness ==
  /\ concurrentLimit = 1
  /\ Settled(workPromise[1])
  /\ worker[2].kind = "throw"
  /\ enqueuePromise[2] = [st |-> "rejected", val |-> 1]
  /\ inProgressPromises = <<3>>

\* C8: under LiveSpec (every started work promise settles, every queued
\* reaction runs) every enqueued task is eventually started and the promise
\* enqueue returned for it eventually settles, failures included.
C8_EveryTaskSettles ==
  \A t \in Tasks :
    Enqueued(t) ~> (Started(t) /\ Settled(enqueuePromise[t]))

C8_Witness ==
  /\ concurrentLimit = 1
  /\ worker[1].kind = "async"
  /\ enqueuePromise[1].st = "rejected"
  /\ worker[2].kind = "throw"
  /\ Settled(enqueuePromise[2])
  /\ Settled(enqueuePromise[3])
  /\ worker[3].kind = "async"

\* C9: at the end of every synchronous pass triggered by an enqueue call or a
\* task completion, the pending list is empty or the in-progress count equals
\* concurrentLimit.
C9_Saturation ==
  [][ ((\E w \in Workers : Enqueue(w)) \/ RunJob) => Saturated' ]_vars

C9_Witness ==
  /\ concurrentLimit = 1
  /\ queue = <<3>>
  /\ inProgressPromises = <<2>>
  /\ Settled(enqueuePromise[1])

\* C10: onQueueCompletePromise is resolved and cleared only when the pending
\* list is empty and the in-progress set is empty, for every concurrentLimit.
C10_DrainOnlyWhenIdle ==
  \A i \in 1..Len(drainLog) : drainLog[i].pending = 0 /\ drainLog[i].active = 0

\* the queue holds neither pending nor in-progress work
Idle == queue = <<>> /\ inProgressPromises = <<>>

\* the dequeue() invocations of the last pass
Calls == {dequeueLog[i] : i \in 1..Len(dequeueLog)}

\* C11: onQueueCompletePromise is resolved exactly once per busy period (a
\* maximal period with pending or in-progress work), and a signal held after a
\* resolved one is a new, unresolved promise.
C11_DrainOncePerCycle ==
  /\ \A i, j \in 1..Len(drainLog) : i # j => drainLog[i].cycle # drainLog[j].cycle
  /\ Idle => \A c \in 1..cycles : \E i \in 1..Len(drainLog) : drainLog[i].cycle = c
  /\ onQueueCompletePromise # 0 => drainPromise[onQueueCompletePromise].st = "pending"

\* C12: between passes the onQueueComplete accessor returns a promise exactly
\* when some task is pending or in progress.
C12_SignalIffOutstanding == (onQueueCompletePromise # 0) <=> ~Idle

\* C13 (as claimed): dequeue returns true iff the invocation started a task or
\* resolved and cleared onQueueCompletePromise.
C13_TrueIffObservableWork ==
  \A e \in Calls : e.ret <=> (e.started > 0 \/ e.drained > 0)

\* C13 (amended): dequeue returns true iff the invocation started a task; an
\* invocation that resolves and clears onQueueCompletePromise returns false,
\* as does one blocked by capacity or with nothing to do.
C13_TrueIffStarted ==
  [][ /\ \A e \in Calls' :
           /\ e.ret <=> e.started = 1
           /\ e.drained > 0 => ~e.ret
           /\ (e.active >= concurrentLimit \/ e.pending = 0) => ~e.ret
      /\ ExternalDequeue => (ret' = <<TRUE>> <=> startOrder' # startOrder) ]_vars

C13_Witness ==
  /\ concurrentLimit = 1
  /\ \E e \in Calls : e.ret /\ e.started = 1
  /\ \E e \in Calls : ~e.ret /\ e.drained = 1

\* C14: an invocation of dequeue that finds free capacity and an empty pending
\* list resolves and clears onQueueCompletePromise if there is one and
\* returns false; dequeue returns true exactly when it took an item off the
\* pending list.
C14_DrainReturnsFalse ==
  \A e \in Calls :
    /\ (e.active < concurrentLimit /\ e.pending = 0) =>
         /\ ~e.ret
         /\ e.signalAfter = 0
         /\ e.drained = (IF e.signal # 0 THEN 1 ELSE 0)
         /\ e.signal # 0 => drainPromise[e.signal] = [st |-> "resolved", val |-> TRUE]
    /\ e.ret <=> e.pendingAfter = e.pending - 1

C14_Witness ==
  /\ concurrentLimit = 2
  /\ \E e \in Calls : e.active = 1 /\ e.pending = 0 /\ e.signal # 0 /\ ~e.ret
  /\ \E e \in Calls : e.ret /\ e.pendingAfter = 0

\* C15: a dequeue call made while the in-progress count equals
\* concurrentLimit, or while nothing is pending, nothing is in progress and
\* there is no onQueueCompletePromise, returns false, starts no task and
\* leaves the pending list, the in-progress set and the signal unchanged.
NothingToDo(pending, active, signal) ==
  active = concurrentLimit \/ (pending = 0 /\ active = 0 /\ signal = 0)

C15_NoOpDequeue ==
  [][ /\ \A e \in Calls' :
           NothingToDo(e.pending, e.active, e.signal) =>
             /\ ~e.ret /\ e.started = 0 /\ e.drained = 0
             /\ e.pendingAfter = e.pending
             /\ e.activeAfter = e.active
             /\ e.signalAfter = e.signal
      /\ (/\ ExternalDequeue
          /\ NothingToDo(Len(queue), Len(inProgressPromises), onQueueCompletePromise))
           => /\ ret' = <<FALSE>>
              /\ UNCHANGED <<queue, inProgressPromises, onQueueCompletePromise,
                             drainPromise, drainLog, startOrder, callCount,
                             workPromise, enqueuePromise>> ]_vars

C15_Witness ==
  /\ concurrentLimit = 1
  /\ ret = <<FALSE>>
  /\ Len(inProgressPromises) = 1
  /\ \E e \in Calls : e.active = 1 /\ ~e.ret
  /\ drainLog # <<>>

\* C16: an enqueue made with a free slot and nothing pending invokes the
\* worker before it returns; an enqueue made while the in-progress count
\* equals concurrentLimit does not invoke it and leaves the task pending with
\* the returned promise unsettled.
C16_EnqueueStartsOrQueues ==
  [][ nextId' = nextId + 1 =>
        /\ (Len(inProgressPromises) < concurrentLimit /\ queue = <<>>) =>
             /\ callCount'[nextId] = 1
             /\ startOrder' = Append(startOrder, nextId)
        /\ Len(inProgressPromises) = concurrentLimit =>
             /\ callCount'[nextId] = 0
             /\ startOrder' = startOrder
             /\ queue' = Append(queue, nextId)
             /\ enqueuePromise'[nextId] = PendingPromise ]_vars

C16_Witness ==
  /\ concurrentLimit = 1
  /\ callCount = [t \in Tasks |-> IF t = 1 THEN 1 ELSE 0]
  /\ workPromise[1].st = "pending"
  /\ queue = <<2>>
  /\ enqueuePromise[2] = PendingPromise

\* C17: concurrentLimit 2, tasks 1 and 2 in progress and task 3 pending: the
\* handling of task 2's rejection rejects its enqueue promise with the reason
\* and starts task 3 while task 1 is untouched; the later handling of task 1's
\* fulfilment resolves its enqueue promise and resolves and clears the
\* onQueueCompletePromise held at that moment.
C17_ScenarioB ==
  [][ /\ (/\ concurrentLimit = 2
          /\ inProgressPromises = <<1, 2>>
          /\ queue = <<3>>
          /\ worker[3].kind = "async"
          /\ Runs(2, "catch"))
           => /\ enqueuePromise'[2] = [st |-> "rejected", val |-> workPromise[2].val]
              /\ inProgressPromises' = <<1, 3>>
              /\ callCount'[3] = 1
              /\ workPromise'[1] = workPromise[1]
              /\ enqueuePromise'[1] = PendingPromise
      /\ (/\ concurrentLimit = 2
          /\ inProgressPromises = <<1, 3>>
          /\ queue = <<>>
          /\ enqueuePromise[2].st = "rejected"
          /\ Runs(1, "then"))
           => /\ enqueuePromise'[1] = [st |-> "resolved", val |-> workPromise[1].val]
              /\ inProgressPromises' = <<3>>
              /\ onQueueCompletePromise # 0
              /\ onQueueCompletePromise' = 0
              /\ drainPromise'[onQueueCompletePromise] = [st |-> "resolved", val |-> TRUE] ]_vars

C17_Witness ==
  /\ concurrentLimit = 2
  /\ worker[2].kind = "async"
  /\ worker[3].kind = "async"
  /\ enqueuePromise[2].st = "rejected"
  /\ enqueuePromise[1].st = "resolved"
  /\ inProgressPromises = <<3>>
  /\ workPromise[3].st = "pending"
  /\ onQueueCompletePromise = 0
  /\ Len(drainLog) = 2

\* C18 (as claimed): the chain of dequeue re-invocations is finite and every
\* invocation that re-invokes itself has strictly reduced pending count plus
\* in-progress count.
C18_SumStrictlyReduced ==
  /\ dequeueLog # <<>> => Len(dequeueLog) <= dequeueLog[1].pending + 1
  /\ \A e \in Calls :
       e.reinvoked => e.pendingAfter + e.activeAfter < e.pending + e.active

\* C18 (amended): the chain of dequeue re-invocations is finite, at most one
\* invocation more than there were pending items; every invocation that
\* re-invokes itself has reduced the pending count by one, and pending count
\* plus in-progress count is reduced only when the worker threw, otherwise it
\* is unchanged.
C18_PendingStrictlyReduced ==
  /\ dequeueLog # <<>> => Len(dequeueLog) <= dequeueLog[1].pending + 1
  /\ \A i \in 1..Len(dequeueLog) : dequeueLog[i].reinvoked <=> i < Len(dequeueLog)
  /\ \A e \in Calls :
       e.reinvoked =>
         /\ e.pendingAfter = e.pending - 1
         /\ e.pendingAfter + e.activeAfter =
              e.pending + e.active - (IF e.activeAfter = e.active THEN 1 ELSE 0)
         /\ e.activeAfter \in {e.active, e.active + 1}

C18_Witness ==
  /\ concurrentLimit = 1
  /\ Len(dequeueLog) = 3
  /\ dequeueLog[1].pending = 2
  /\ dequeueLog[1].activeAfter = dequeueLog[1].active
  /\ dequeueLog[2].activeAfter = dequeueLog[2].active + 1

\* the outcome a call of resolve or reject asks for
Outcome(call) ==
  [st |-> IF call.op = "resolve" THEN "resolved" ELSE "rejected", val |-> call.val]

\* the continuations with a handler for fulfilment / for rejection / for both
HasSuccess(kind) == \E i \in 1..Len(Chain(kind)) : Chain(kind)[i].onFulfilled
HasFailure(kind) == \E i \in 1..Len(Chain(kind)) : Chain(kind)[i].onRejected
HasFinally(kind) == \E i \in 1..Len(Chain(kind)) : Chain(kind)[i].onFinally

Notified(fork, handler) ==
  {i \in 1..Len(rpNotified) : rpNotified[i].fork = fork /\ rpNotified[i].handler = handler}

\* C19: a ResolvablePromise settles at most once: the first call of resolve
\* or reject fixes outcome and value, a later call of either changes neither
\* and queues or delivers no notification, and no handler is notified twice.
C19_SettleOnce ==
  [][ /\ rpCalls' # <<>> => rpPromise' = Outcome(rpCalls'[1])
      /\ (rpCalls' # rpCalls /\ rpCalls # <<>>) =>
           /\ rpPromise' = rpPromise
           /\ rpJobs' = rpJobs
           /\ rpNotified' = rpNotified
      /\ \A i, j \in 1..Len(rpNotified') :
           (/\ i # j
            /\ rpNotified'[i].fork = rpNotified'[j].fork)
             => rpNotified'[i].handler # rpNotified'[j].handler ]_vars

C19_Witness ==
  /\ Len(rpCalls) = 2
  /\ rpCalls[1].op = "reject"
  /\ rpCalls[2].op = "resolve"
  /\ rpJobs = <<>>
  /\ \E i \in 1..Len(rpNotified) : rpNotified[i].handler = "failure"

\* C20: no handler is invoked before resolve or reject is called; once the
\* reactions have run, after resolve(v) every success handler and every
\* finally handler has been invoked, the success handlers with v, and no
\* failure handler; after reject(r) every failure handler (catch, second
\* argument of then, catch chained after then) and every finally handler has
\* been invoked, the failure handlers with r, and no success handler.
C20_HandlersFollowOutcome ==
  /\ rpCalls = <<>> => rpNotified = <<>>
  /\ \A i \in 1..Len(rpNotified) :
       /\ rpNotified[i].handler = "success" =>
            rpPromise = [st |-> "resolved", val |-> rpNotified[i].arg]
       /\ rpNotified[i].handler = "failure" =>
            rpPromise = [st |-> "rejected", val |-> rpNotified[i].arg]
  /\ (rpJobs = <<>> /\ Settled(rpPromise)) =>
       \A f \in 1..Len(rpForks) :
         /\ (rpPromise.st = "resolved" /\ HasSuccess(rpForks[f])) => Notified(f, "success") # {}
         /\ (rpPromise.st = "rejected" /\ HasFailure(rpForks[f])) => Notified(f, "failure") # {}
         /\ HasFinally(rpForks[f]) => Notified(f, "finally") # {}

C20_Witness ==
  /\ rpPromise.st = "rejected"
  /\ rpForks = <<"thenCatch", "thenBoth", "catch">>
  /\ rpJobs = <<>>
  /\ \A f \in 1..3 : Notified(f, "failure") # {}

\* C21: the holder of toPromise() cannot settle the promise or change its
\* outcome: a call on the view leaves the promise as it is, the promise
\* changes only in a call of the producer's resolve or reject, it is pending
\* until the first such call, and the handlers see exactly the outcome of
\* that call.
C21_ViewCannotSettle ==
  [][ /\ (\E op \in ForkKinds \cup {"resolve", "reject"}, v \in Values : RPViewCall(op, v))
           => rpPromise' = rpPromise
      /\ rpPromise' # rpPromise => rpCalls' # rpCalls
      /\ rpCalls' = <<>> => rpPromise' = PendingPromise
      /\ \A i \in 1..Len(rpNotified') :
           /\ rpCalls' # <<>>
           /\ rpNotified'[i].handler = "success" =>
                Outcome(rpCalls'[1]) = [st |-> "resolved", val |-> rpNotified'[i].arg]
           /\ rpNotified'[i].handler = "failure" =>
                Outcome(rpCalls'[1]) = [st |-> "rejected", val |-> rpNotified'[i].arg] ]_vars

C21_Witness ==
  /\ rpCalls = <<[op |-> "resolve", val |-> 1]>>
  /\ rpForks = <<"then", "catch", "finally">>
  /\ rpJobs = <<>>
  /\ Notified(1, "success") # {}
  /\ Notified(2, "failure") = {}
  /\ Notified(3, "finally") # {}

\* C22: in the handling of task t's settlement the task is removed from the
\* in-progress set and its enqueue promise is settled before admission is
\* attempted: every dequeue invocation of that pass, and so every worker it
\* invokes, finds t no longer in progress and t's enqueue promise settled.
C22_SettleBeforeAdmission ==
  [][ \A t \in Tasks :
        (Runs(t, "then") \/ Runs(t, "catch")) =>
          /\ t \notin Active'
          /\ Settled(enqueuePromise'[t])
          /\ dequeueLog' # <<>>
          /\ dequeueLog'[1].active = Len(inProgressPromises) - 1
          /\ \A e \in Calls' :
               /\ \A i \in 1..Len(e.inProgress) : e.inProgress[i] # t
               /\ t \in e.settled ]_vars

C22_Witness ==
  /\ concurrentLimit = 1
  /\ startOrder = <<1, 2>>
  /\ enqueuePromise[1].st = "resolved"
  /\ workPromise[2].st = "pending"
  /\ Len(dequeueLog) = 2
  /\ dequeueLog[1].started = 1
  /\ dequeueLog[1].inProgress = <<>>
  /\ 1 \in dequeueLog[1].settled

\* C23: a new onQueueCompletePromise is created only by an enqueue made
\* while the pending list and the in-progress set are both empty; an enqueue
\* made while some task is in progress creates none.
C23_SignalCreatedOnlyWhenIdle ==
  [][ Len(drainPromise') > Len(drainPromise) =>
        /\ nextId' = nextId + 1
        /\ queue = <<>>
        /\ inProgressPromises = <<>> ]_vars

\* C24 (as claimed): a held onQueueCompletePromise is never resolved, and
\* the field changes only inside dequeue: the first dequeue invocation of a
\* pass finds the field as it was before the pass, and the field after the
\* pass is what the last invocation left.
C24_SignalChangesOnlyInDequeue ==
  [][ /\ onQueueCompletePromise' # 0 =>
           drainPromise'[onQueueCompletePromise'].st = "pending"
      /\ onQueueCompletePromise' # onQueueCompletePromise =>
           /\ dequeueLog' # <<>>
           /\ dequeueLog'[1].signal = onQueueCompletePromise
           /\ dequeueLog'[Len(dequeueLog')].signalAfter = onQueueCompletePromise' ]_vars

\* C24 (amended): a held onQueueCompletePromise is never resolved: a promise
\* is resolved only while the queue holds it and is cleared in that step;
\* the field is set only by addToQueue in an enqueue that finds it absent,
\* before the first dequeue invocation, and cleared only inside dequeue.
C24_SetInEnqueueClearedInDequeue ==
  [][ /\ onQueueCompletePromise' # 0 =>
           drainPromise'[onQueueCompletePromise'].st = "pending"
      /\ \A i \in 1..Len(drainPromise) :
           drainPromise'[i] # drainPromise[i] =>
             /\ onQueueCompletePromise = i
             /\ onQueueCompletePromise' # i
             /\ drainPromise'[i] = [st |-> "resolved", val |-> TRUE]
      /\ Len(drainPromise') > Len(drainPromise) =>
           /\ nextId' = nextId + 1
           /\ onQueueCompletePromise = 0
           /\ Len(drainPromise') = Len(drainPromise) + 1
           /\ dequeueLog'[1].signal = Len(drainPromise')
      /\ nextId' = nextId => Len(drainPromise') = Len(drainPromise)
      /\ \A e \in Calls' :
           /\ e.signalAfter \in {e.signal, 0}
           /\ e.signalAfter # e.signal <=> e.drained = 1
      /\ ExternalDequeue => onQueueCompletePromise' \in {onQueueCompletePromise, 0} ]_vars

C24_Witness ==
  /\ Len(drainPromise) = 2
  /\ drainPromise[1] = [st |-> "resolved", val |-> TRUE]
  /\ onQueueCompletePromise = 2
  /\ drainPromise[2].st = "pending"
  /\ dequeueLog # <<>>
  /\ dequeueLog[1].signal = 2

\* C25: the promise returned by enqueue is unsettled while its task is
\* pending and while its work promise is unsettled; it is settled only in the
\* reaction to its own work promise, or in the pass in which its worker threw,
\* and never by another task's settlement.
C25_SettledOnlyByOwnTask ==
  [][ /\ \A t \in Tasks :
           /\ (t < nextId' /\ callCount'[t] = 0) => enqueuePromise'[t] = PendingPromise
           /\ workPromise'[t].st = "pending" => enqueuePromise'[t] = PendingPromise
           /\ (enqueuePromise'[t] # enqueuePromise[t] /\ Settled(enqueuePromise'[t])) =>
                \/ Runs(t, "then") \/ Runs(t, "catch")
                \/ /\ worker'[t].kind = "throw"
                   /\ callCount[t] = 0
                   /\ callCount'[t] = 1
      /\ \A t, u \in Tasks :
           (t # u /\ (Runs(u, "then") \/ Runs(u, "catch")) /\ worker[t].kind = "async")
             => enqueuePromise'[t] = enqueuePromise[t] ]_vars

C25_Witness ==
  /\ concurrentLimit = 2
  /\ worker[1].kind = "async"
  /\ worker[2].kind = "async"
  /\ enqueuePromise[2].st = "resolved"
  /\ enqueuePromise[1] = PendingPromise
  /\ workPromise[1].st = "resolved"
  /\ inProgressPromises = <<1, 3>>

\* C27: a dequeue() call made from outside between two passes returns
\* false, starts no task, and leaves the pending list, the in-progress set
\* and onQueueCompletePromise unchanged, in every reachable state.
C27_ExternalDequeueNoOp ==
  [][ ExternalDequeue =>
        /\ ret' = <<FALSE>>
        /\ UNCHANGED <<queue, inProgressPromises, onQueueCompletePromise, drainPromise,
                       drainLog, startOrder, callCount, workPromise, enqueuePromise>> ]_vars

C27_Witness ==
  /\ ret = <<FALSE>>
  /\ concurrentLimit = 2
  /\ Len(inProgressPromises) = 1
  /\ queue = <<>>
  /\ onQueueCompletePromise = 0
  /\ Len(drainLog) = 1

\* C28: onQueueCompletePromise is resolved only at a moment when the
\* pending list is empty: never while an enqueued task has not been started.
C28_DrainOnlyWhenNothingPending ==
  [][ Len(drainLog') > Len(drainLog) =>
        /\ \A i \in (Len(drainLog) + 1)..Len(drainLog') : drainLog'[i].pending = 0
        /\ \A e \in Calls' : e.drained = 1 => (e.pending = 0 /\ e.pendingAfter = 0)
        /\ \A t \in Tasks : t < nextId' => callCount'[t] >= 1
        /\ queue' = <<>> ]_vars

C28_Witness ==
  /\ concurrentLimit = 1
  /\ callCount = [t \in Tasks |-> 1]
  /\ Len(drainLog) = 1
  /\ drainLog[1].pending = 0
  /\ Idle

\* C26: with workers that call enqueue or dequeue on the queue while it is
\* invoking them, the in-progress set never holds more than concurrentLimit
\* promises and no more than concurrentLimit invoked tasks are unsettled.
C26_ReentrantWithinLimit ==
  /\ Len(inProgressPromises) <= concurrentLimit
  /\ Cardinality({t \in Tasks : callCount[t] >= 1 /\ workPromise[t].st = "pending"})
       <= concurrentLimit

\* C29: under LiveSpec (every started work promise settles, every queued
\* reaction runs; enqueue calls may stop at any time) every
\* onQueueCompletePromise that was created is eventually resolved, and the
\* queue always comes back to a state with nothing pending, nothing in
\* progress and no onQueueCompletePromise: again and again a state is reached
\* that is idle, holds no signal, and in which every promise created so far
\* is resolved (a resolved promise stays resolved).
C29_DrainLiveness ==
  []<>(/\ Idle
       /\ onQueueCompletePromise = 0
       /\ \A i \in 1..Len(drainPromise) :
            drainPromise[i] = [st |-> "resolved", val |-> TRUE])

C29_Witness ==
  /\ concurrentLimit = 1
  /\ nextId = 3
  /\ Len(drainPromise) = 2
  /\ \A i \in 1..2 : drainPromise[i].st = "resolved"
  /\ Idle
  /\ onQueueCompletePromise = 0
  /\ worker[2].kind = "async"

====
